---- MODULE Spec2Model ----
(***************************************************************************)
(* Blackbook Content Generator (app.py): the content generator with its    *)
(* template fallback, and the Streamlit script that sets up the ngrok      *)
(* tunnel, validates the form and assembles the DOCX document.             *)
(*                                                                         *)
(* Python strings are TLA+ strings; TLC evaluates Len, \o, Head, Tail and  *)
(* SubSeq on them character by character.                                  *)
(***************************************************************************)
EXTENDS Naturals, Sequences, FiniteSets

VARIABLES
    api_key,        \* os.getenv("COHERE_API_KEY", ""), fixed for the process
    session_state,  \* st.session_state["ngrok_tunnel"] of each browser session (0: key absent)
    tunnels,        \* number of tunnels ngrok.connect has created in this process
    phase,          \* position of the current script run
    session,        \* the session whose script run is (or was last) executing
    project_title,  \* st.text_input value
    domain,         \* st.selectbox value
    section,        \* st.selectbox value
    generate_all,   \* st.checkbox value
    idx,            \* position of the "for sec in valid_sections" loop
    doc,            \* the python-docx Document: its block items in order
    download,       \* what st.download_button offers, or NoDownload
    message,        \* the st.error / st.sidebar.error text that ended the run, or ""
    gen_calls,      \* calls of generate_content made by the current run
    svc_calls,      \* calls of co.generate made by the current run
    last            \* direct calls: the function called, the service outcome and the result

vars == <<api_key, session_state, tunnels, phase, session, project_title, domain,
          section, generate_all, idx, doc, download, message, gen_calls, svc_calls, last>>

-----------------------------------------------------------------------------
(* Program constants and the bounds of the model *)

\* if len(content) < 50
MIN_CONTENT_LEN == 50

\* Longest run of whitespace the service puts before and after the text.
MaxPad == 1

valid_sections ==
    <<"Introduction", "Problem Statement", "Objective", "Methodology",
      "Literature Review", "Future Scope">>

FormDomains == {"AI", "IoT", "Web", "Data Science", "Cybersecurity"}

Sessions == {"s1", "s2"}

\* Values the user enters in the form (the selections are options of the form).
UserTitles == {"", "Smart Parking"}
UserDomains == {"AI", "Data Science"}
UserSections == {"Problem Statement", "Objective"}
Credentials == {"", "key"}

\* Arguments of direct calls of generate_content and generate_fallback_content.
ArgSections ==
    {valid_sections[k] : k \in 1..Len(valid_sections)} \cup {"NotASection", "introduction", ""}
ArgDomains == {"AI", "IoT", ""}
ArgTitles == {"X", "Smart Parking", ""}

-----------------------------------------------------------------------------
(* Strings *)

RECURSIVE Rep(_, _)
Rep(c, n) == IF n = 0 THEN "" ELSE c \o Rep(c, n - 1)

\* Characters str.strip() removes (those a TLA+ string can hold).
Whitespace == {" ", "\t", "\n", "\r", "\f"}

RECURSIVE LStrip(_)
LStrip(s) ==
    IF Len(s) > 0 /\ Head(s) \in Whitespace THEN LStrip(Tail(s)) ELSE s

RECURSIVE RStrip(_)
RStrip(s) ==
    IF Len(s) > 0 /\ SubSeq(s, Len(s), Len(s)) \in Whitespace
    THEN RStrip(SubSeq(s, 1, Len(s) - 1))
    ELSE s

\* str.strip()
Strip(s) == RStrip(LStrip(s))

\* str.replace(' ', '_')
RECURSIVE ReplaceSpaces(_)
ReplaceSpaces(s) ==
    IF Len(s) = 0 THEN ""
    ELSE (IF Head(s) = " " THEN "_" ELSE Head(s)) \o ReplaceSpaces(Tail(s))

\* sub in s
Contains(s, sub) ==
    \E k \in 1..(Len(s) + 1) :
        k + Len(sub) - 1 <= Len(s) /\ SubSeq(s, k, k + Len(sub) - 1) = sub

\* x in list
InList(x, list) == \E k \in 1..Len(list) : list[k] = x

-----------------------------------------------------------------------------
(* generate_fallback_content: the templates *)

\* The Problem Statement template with the title left out.
TemplateProblemStatementNoTitle(dom, title) ==
    "The current state of " \o dom \o " faces several challenges. Traditional approaches"
    \o " have limitations that hinder optimal performance and scalability."

TemplateIntroduction(dom, title) ==
    "The "
    \o title
    \o " project represents a significant advancement in the field of "
    \o dom
    \o ". This project aims to address current challenges and provide innovative solutions that ca"
    \o "n benefit both academic research and practical applications.\n\nIn today's rapidly evolving "
    \o "technological landscape, "
    \o dom
    \o " continues to play a crucial role in solving complex problems. This project focuses on dev"
    \o "eloping comprehensive solutions that leverage modern technologies and methodologies.\n\nThe "
    \o "scope of this project encompasses various aspects of "
    \o dom
    \o ", including theoretical foundations, practical implementations, and real-world application"
    \o "s. Through systematic research and development, this project seeks to contribute meaningfu"
    \o "l insights to the field."

TemplateProblemStatement(dom, title) ==
    "The current state of "
    \o dom
    \o " faces several challenges that require immediate attention and innovative solutions. Tradi"
    \o "tional approaches to "
    \o title
    \o " have limitations that hinder optimal performance and scalability.\n\nKey issues identified "
    \o "include:\n1. Limited efficiency in existing systems\n2. Lack of comprehensive solutions\n3. N"
    \o "eed for improved user experience\n4. Scalability concerns in current implementations\n\nThis "
    \o "project addresses these challenges by proposing a novel approach that combines theoretical"
    \o " knowledge with practical implementation strategies."

TemplateObjective(dom, title) ==
    "The primary objective of this "
    \o title
    \o " project is to develop a comprehensive solution in the "
    \o dom
    \o " domain that addresses current limitations and provides enhanced functionality.\n\nSpecific "
    \o "objectives include:\n1. To analyze existing systems and identify improvement opportunities\n"
    \o "2. To design and implement an efficient "
    \o dom
    \o " solution\n3. To evaluate performance and validate the proposed approach\n4. To provide docu"
    \o "mentation and guidelines for future development\n\nThese objectives will be achieved through"
    \o " systematic research, careful planning, and rigorous testing procedures."

TemplateMethodology(dom, title) ==
    "The methodology for this "
    \o title
    \o " project follows a systematic approach that ensures comprehensive coverage of all project "
    \o "aspects.\n\nPhase 1: Research and Analysis\n- Literature review of existing "
    \o dom
    \o " solutions\n- Identification of current challenges and limitations\n- Analysis of user requi"
    \o "rements and expectations\n\nPhase 2: Design and Development\n- System architecture design\n- I"
    \o "mplementation of core functionalities\n- Integration of "
    \o dom
    \o " technologies\n\nPhase 3: Testing and Validation\n- Performance testing and optimization\n- Us"
    \o "er acceptance testing\n- Documentation and deployment"

TemplateLiteratureReview(dom, title) ==
    "The literature review for this "
    \o title
    \o " project examines current research and developments in the "
    \o dom
    \o " field. Various studies have been conducted to understand the theoretical foundations and "
    \o "practical applications.\n\nRecent research in "
    \o dom
    \o " has focused on improving efficiency, scalability, and user experience. Several authors ha"
    \o "ve proposed different approaches to address current challenges.\n\nKey findings from the lit"
    \o "erature include:\n1. The importance of comprehensive system design\n2. The need for efficien"
    \o "t implementation strategies\n3. The significance of user-centered approaches\n4. The value o"
    \o "f continuous improvement and optimization\n\nThis project builds upon existing knowledge whi"
    \o "le introducing novel concepts and methodologies."

TemplateFutureScope(dom, title) ==
    "The "
    \o title
    \o " project provides a foundation for future developments in the "
    \o dom
    \o " field. Several opportunities exist for extending and improving the current solution.\n\nPot"
    \o "ential future enhancements include:\n1. Integration with emerging technologies\n2. Expansion"
    \o " of functionality and features\n3. Performance optimization and scalability improvements\n4."
    \o " Development of mobile and web-based interfaces\n\nThe project also opens possibilities for "
    \o "research in related areas such as:\n- Advanced algorithms and techniques\n- Cross-platform c"
    \o "ompatibility\n- Enhanced user experience design\n- Integration with other "
    \o dom
    \o " systems\n\nThese future developments will contribute to the continuous evolution of "
    \o dom
    \o " solutions."

GenericPlaceholder(sec, dom, title) ==
    "Content for "
    \o sec
    \o " section of "
    \o title
    \o " project in "
    \o dom
    \o " domain."
\* return templates.get(section, <the generic placeholder>)
generate_fallback_content(sec, dom, title) ==
    CASE sec = "Introduction" -> TemplateIntroduction(dom, title)
      [] sec = "Problem Statement" -> TemplateProblemStatement(dom, title)
      [] sec = "Objective" -> TemplateObjective(dom, title)
      [] sec = "Methodology" -> TemplateMethodology(dom, title)
      [] sec = "Literature Review" -> TemplateLiteratureReview(dom, title)
      [] sec = "Future Scope" -> TemplateFutureScope(dom, title)
      [] OTHER -> GenericPlaceholder(sec, dom, title)

-----------------------------------------------------------------------------
(* The external generation service: what co.generate(...) can do *)

RECURSIVE Pad(_)
Pad(n) == IF n = 0 THEN "" ELSE Pad(n - 1) \o (IF n % 2 = 1 THEN " " ELSE "\n")

\* Texts before padding: empty, short, one below the threshold, at the
\* threshold, and one above it with whitespace inside.
ServiceCores ==
    {"", Rep("A", 10), Rep("A", MIN_CONTENT_LEN - 1), Rep("A", MIN_CONTENT_LEN),
     "A" \o Rep(" ", MIN_CONTENT_LEN - 1) \o "A"}

ServiceTexts ==
    {Pad(a) \o c \o Pad(b) : a \in 0..MaxPad, b \in 0..MaxPad, c \in ServiceCores}

\* "error": co.generate (or cohere.Client) raises; "no_generations": the
\* response holds no candidate, so generations[0] raises IndexError;
\* "text": generations[0].text is the text.
Outcomes ==
    {[kind |-> "error", text |-> ""], [kind |-> "no_generations", text |-> ""]}
    \cup {[kind |-> "text", text |-> t] : t \in ServiceTexts}

-----------------------------------------------------------------------------
(* generate_content *)

\* A call's result: the value returned, whether an exception left the call
\* instead, the number of co.generate calls made, and whether st.error ran.
Returned(value, calls, warn) ==
    [ret |-> value, raised |-> FALSE, svc |-> calls, warned |-> warn]

Raised(calls) == [ret |-> "", raised |-> TRUE, svc |-> calls, warned |-> FALSE]

\* The section check answering with the fallback template.
InvalidSectionAsFallback(sec, dom, title) ==
    Returned(generate_fallback_content(sec, dom, title), 0, FALSE)

\* if section not in valid_sections: return f"Invalid section: {section}"
InvalidSection(sec, dom, title) == Returned("Invalid section: " \o sec, 0, FALSE)

\* The length check with the boundary on the wrong side: 50 is rejected.
TooShortAtThreshold(content) == Len(content) <= MIN_CONTENT_LEN

\* The length check one too low: 49 is accepted.
TooShortBelowThreshold(content) == Len(content) < MIN_CONTENT_LEN - 1

\* if len(content) < 50
TooShort(content) == Len(content) < MIN_CONTENT_LEN

\* An except clause that lets the exception go on to the caller.
ExceptHandlerReraise(sec, dom, title) == Raised(1)

\* except Exception as e: logging.exception; st.error; return fallback
ExceptHandler(sec, dom, title) ==
    Returned(generate_fallback_content(sec, dom, title), 1, TRUE)

\* generate_content that asks the service a second time after a failure or
\* a short text, and then falls back.
generate_content_retry(sec, dom, title, key, outcome) ==
    IF ~InList(sec, valid_sections) THEN InvalidSection(sec, dom, title)
    ELSE IF outcome.kind # "text"
    THEN Returned(generate_fallback_content(sec, dom, title), 2, TRUE)
    ELSE LET content == Strip(outcome.text) IN
         IF TooShort(content)
         THEN Returned(generate_fallback_content(sec, dom, title), 2, FALSE)
         ELSE Returned(content, 1, FALSE)

generate_content(sec, dom, title, key, outcome) ==
    IF ~InList(sec, valid_sections) THEN InvalidSection(sec, dom, title)
    ELSE IF outcome.kind # "text" THEN ExceptHandler(sec, dom, title)
    ELSE LET content == Strip(outcome.text) IN
         IF TooShort(content)
         THEN Returned(generate_fallback_content(sec, dom, title), 1, FALSE)
         ELSE Returned(content, 1, FALSE)

-----------------------------------------------------------------------------
(* The document (python-docx) *)

\* Document.add_heading(text, level): style "Title" for level 0, "Heading 1" for level 1.
Heading(text, level) ==
    [style |-> IF level = 0 THEN "Title" ELSE "Heading 1", text |-> text]

\* Document.add_paragraph(text)
Paragraph(text) == [style |-> "Normal", text |-> text]

\* The loop body without its section heading.
SectionBlockNoHeading(sec, content) == <<Paragraph(content)>>

\* doc.add_heading(sec, level=1); doc.add_paragraph(content)
SectionBlock(sec, content) == <<Heading(sec, 1), Paragraph(content)>>

\* The single-section document laid out like the full one.
SingleDocumentWithSectionHeading(title, sec, content) ==
    <<Heading(title, 0), Heading(sec, 1), Paragraph(content)>>

\* doc.add_heading(f'{project_title} - {section}', 0); doc.add_paragraph(content)
SingleDocument(title, sec, content) ==
    <<Heading(title \o " - " \o sec, 0), Paragraph(content)>>

NoDownload == [label |-> "", file_name |-> "", data |-> <<>>]

\* st.download_button(label, data=buffer.getvalue(), file_name=...)
DownloadButton(label, name, document) ==
    [label |-> label, file_name |-> name, data |-> document]

-----------------------------------------------------------------------------
(* The script run *)

NoOutcome == [kind |-> "none", text |-> ""]
NoCall == [fn |-> "none", outcome |-> NoOutcome, result |-> Returned("", 0, FALSE)]

\* Positions at which a script run is over and the next one may start.
RunOver == {"idle", "rendered", "stopped", "blocked", "done", "crashed"}

\* What a fresh script run starts from.
ResetRun ==
    /\ project_title' = ""
    /\ domain' = "AI"
    /\ section' = valid_sections[1]
    /\ generate_all' = FALSE
    /\ idx' = 0
    /\ doc' = <<>>
    /\ download' = NoDownload
    /\ gen_calls' = 0
    /\ svc_calls' = 0

\* if "ngrok_tunnel" not in st.session_state: ngrok.connect succeeds
TunnelCreate(s) ==
    /\ phase \in RunOver
    /\ session_state[s] = 0
    /\ session' = s
    /\ tunnels' = tunnels + 1
    /\ session_state' = [session_state EXCEPT ![s] = tunnels + 1]
    /\ phase' = "form"
    /\ message' = ""
    /\ ResetRun
    /\ UNCHANGED <<api_key, last>>

\* ngrok.connect raises: st.sidebar.error, st.stop()
TunnelFail(s) ==
    /\ phase \in RunOver
    /\ session_state[s] = 0
    /\ session' = s
    /\ phase' = "stopped"
    /\ ResetRun
    /\ message' = "Ngrok Error"
    /\ UNCHANGED <<api_key, session_state, tunnels, last>>

\* else: public_url = st.session_state["ngrok_tunnel"]
TunnelReuse(s) ==
    /\ phase \in RunOver
    /\ session_state[s] # 0
    /\ session' = s
    /\ phase' = "form"
    /\ message' = ""
    /\ ResetRun
    /\ UNCHANGED <<api_key, session_state, tunnels, last>>

\* The form is rendered and the button was not clicked: the script ends.
NoClick ==
    /\ phase = "form"
    /\ phase' = "rendered"
    /\ UNCHANGED <<api_key, session_state, tunnels, session, project_title, domain,
                   section, generate_all, idx, doc, download, message, gen_calls,
                   svc_calls, last>>

\* The validation that forgets the title.
ValidationKeyOnly(key, title) ==
    IF key = "" THEN "Please enter your Cohere API key." ELSE ""

\* if not api_key: st.error(...) elif not project_title: st.error(...) else: generate
Validation(key, title) ==
    IF key = "" THEN "Please enter your Cohere API key."
    ELSE IF title = "" THEN "Please enter the project title."
    ELSE ""

\* The button is clicked and the validation refuses.
ClickBlocked ==
    /\ phase = "form"
    /\ \E title \in UserTitles, dom \in UserDomains, sec \in UserSections, all \in BOOLEAN :
        /\ Validation(api_key, title) # ""
        /\ project_title' = title
        /\ domain' = dom
        /\ section' = sec
        /\ generate_all' = all
        /\ message' = Validation(api_key, title)
    /\ phase' = "blocked"
    /\ UNCHANGED <<api_key, session_state, tunnels, session, idx, doc, download,
                   gen_calls, svc_calls, last>>

\* if generate_all: doc = Document(); doc.add_heading(project_title, 0)
BeginGenerateAll ==
    /\ phase = "form"
    /\ \E title \in UserTitles, dom \in UserDomains, sec \in UserSections :
        /\ Validation(api_key, title) = ""
        /\ project_title' = title
        /\ domain' = dom
        /\ section' = sec
        /\ doc' = <<Heading(title, 0)>>
    /\ generate_all' = TRUE
    /\ idx' = 1
    /\ phase' = "all"
    /\ UNCHANGED <<api_key, session_state, tunnels, session, download, message,
                   gen_calls, svc_calls, last>>

\* for sec in valid_sections: one iteration
GenerateAllStep ==
    /\ phase = "all"
    /\ idx <= Len(valid_sections)
    /\ \E outcome \in Outcomes :
        LET sec == valid_sections[idx]
            r == generate_content(sec, domain, project_title, api_key, outcome)
        IN  /\ gen_calls' = gen_calls + 1
            /\ svc_calls' = svc_calls + r.svc
            /\ IF r.raised
               THEN /\ phase' = "crashed"
                    /\ UNCHANGED <<doc, idx>>
               ELSE /\ doc' = doc \o SectionBlock(sec, r.ret)
                    /\ idx' = idx + 1
                    /\ phase' = "all"
    /\ UNCHANGED <<api_key, session_state, tunnels, session, project_title, domain,
                   section, generate_all, download, message, last>>

\* After the loop: doc.save(buffer); st.download_button(...)
FinishGenerateAll ==
    /\ phase = "all"
    /\ idx = Len(valid_sections) + 1
    /\ download' = DownloadButton("Download Full Blackbook as DOCX",
                                  ReplaceSpaces(project_title) \o "_Blackbook.docx", doc)
    /\ phase' = "done"
    /\ UNCHANGED <<api_key, session_state, tunnels, session, project_title, domain,
                   section, generate_all, idx, doc, message, gen_calls, svc_calls, last>>

\* else: the single-section branch
GenerateSingle ==
    /\ phase = "form"
    /\ \E title \in UserTitles, dom \in UserDomains, sec \in UserSections,
          outcome \in Outcomes :
        LET r == generate_content(sec, dom, title, api_key, outcome) IN
        /\ Validation(api_key, title) = ""
        /\ project_title' = title
        /\ domain' = dom
        /\ section' = sec
        /\ gen_calls' = gen_calls + 1
        /\ svc_calls' = svc_calls + r.svc
        /\ IF r.raised
           THEN /\ phase' = "crashed"
                /\ UNCHANGED <<doc, download>>
           ELSE /\ doc' = SingleDocument(title, sec, r.ret)
                /\ download' = DownloadButton("Download Section as DOCX",
                                   ReplaceSpaces(title) \o "_" \o sec \o ".docx",
                                   SingleDocument(title, sec, r.ret))
                /\ phase' = "done"
    /\ generate_all' = FALSE
    /\ UNCHANGED <<api_key, session_state, tunnels, session, idx, message, last>>

Init ==
    /\ api_key \in Credentials
    /\ session_state = [s \in Sessions |-> 0]
    /\ tunnels = 0
    /\ phase = "idle"
    /\ session = "s1"
    /\ project_title = ""
    /\ domain = "AI"
    /\ section = valid_sections[1]
    /\ generate_all = FALSE
    /\ idx = 0
    /\ doc = <<>>
    /\ download = NoDownload
    /\ message = ""
    /\ gen_calls = 0
    /\ svc_calls = 0
    /\ last = NoCall

Next ==
    \/ \E s \in Sessions : TunnelCreate(s)
    \/ \E s \in Sessions : TunnelFail(s)
    \/ \E s \in Sessions : TunnelReuse(s)
    \/ NoClick
    \/ ClickBlocked
    \/ BeginGenerateAll
    \/ GenerateAllStep
    \/ FinishGenerateAll
    \/ GenerateSingle

Spec == Init /\ [][Next]_vars

-----------------------------------------------------------------------------
(* Direct calls of the two functions, with arguments of any kind *)

InitCalls ==
    /\ api_key \in Credentials
    /\ section \in ArgSections
    /\ domain \in ArgDomains
    /\ project_title \in ArgTitles
    /\ session_state = [s \in Sessions |-> 0]
    /\ tunnels = 0
    /\ phase = "direct"
    /\ session = "s1"
    /\ generate_all = FALSE
    /\ idx = 0
    /\ doc = <<>>
    /\ download = NoDownload
    /\ message = ""
    /\ gen_calls = 0
    /\ svc_calls = 0
    /\ last = NoCall

CallGenerateContent ==
    /\ phase = "direct"
    /\ \E outcome \in Outcomes :
        last' = [fn |-> "generate_content", outcome |-> outcome,
                 result |-> generate_content(section, domain, project_title, api_key, outcome)]
    /\ UNCHANGED <<api_key, session_state, tunnels, phase, session, project_title, domain,
                   section, generate_all, idx, doc, download, message, gen_calls, svc_calls>>

CallFallback ==
    /\ phase = "direct"
    /\ last' = [fn |-> "generate_fallback_content", outcome |-> NoOutcome,
                result |-> Returned(generate_fallback_content(section, domain, project_title),
                                    0, FALSE)]
    /\ UNCHANGED <<api_key, session_state, tunnels, phase, session, project_title, domain,
                   section, generate_all, idx, doc, download, message, gen_calls, svc_calls>>

NextCalls == CallGenerateContent \/ CallFallback

SpecCalls == InitCalls /\ [][NextCalls]_vars

-----------------------------------------------------------------------------
(* Properties of generate_content and generate_fallback_content (SpecCalls) *)

CalledGenerate == last.fn = "generate_content"

Recognized(sec) == InList(sec, valid_sections)

\* The service answered with the text c wrapped in whitespace.
AnsweredCore(c) ==
    /\ last.outcome.kind = "text"
    /\ \E a \in 0..MaxPad, b \in 0..MaxPad : last.outcome.text = Pad(a) \o c \o Pad(b)

\* C1: whatever the section, domain, title and credential, and whether the
\* service fails, answers with a short text or with a valid one,
\* generate_content returns a non-empty string and no exception leaves it.
C1_AlwaysYieldsText ==
    CalledGenerate => (~last.result.raised /\ Len(last.result.ret) > 0)

\* C1 witness: the service failed for a recognized section and text came back.
C1_Witness ==
    /\ CalledGenerate
    /\ Recognized(section)
    /\ last.outcome.kind = "error"
    /\ Len(last.result.ret) > 0

\* C2: for a recognized section, a service text whose trimmed form has 50
\* characters or more is returned trimmed and otherwise untouched.
C2_LongTextReturnedTrimmed ==
    \A c \in ServiceCores :
        (CalledGenerate /\ Recognized(section) /\ AnsweredCore(c) /\ Len(c) >= MIN_CONTENT_LEN)
            => (last.result.ret = c /\ ~last.result.raised)

\* C2 witness: a padded text of exactly 50 characters was returned trimmed.
C2_Witness ==
    /\ CalledGenerate
    /\ Recognized(section)
    /\ last.outcome.kind = "text"
    /\ Len(last.outcome.text) > MIN_CONTENT_LEN
    /\ last.result.ret = Rep("A", MIN_CONTENT_LEN)

\* C3: for a recognized section, a failed call or a text shorter than 50
\* characters after trimming (empty and whitespace-only included) gives
\* exactly generate_fallback_content(section, domain, title).
C3_FallbackOnFailureOrShort ==
    (CalledGenerate /\ Recognized(section)
        /\ \/ last.outcome.kind # "text"
           \/ \E c \in ServiceCores : AnsweredCore(c) /\ Len(c) < MIN_CONTENT_LEN)
    => last.result.ret = generate_fallback_content(section, domain, project_title)

\* C3 witness: a text one character below the threshold was replaced.
C3_Witness ==
    /\ CalledGenerate
    /\ section = "Objective"
    /\ domain = "IoT"
    /\ AnsweredCore(Rep("A", MIN_CONTENT_LEN - 1))
    /\ last.result.ret = TemplateObjective("IoT", project_title)

\* C4: for a section outside the six recognized ones generate_content
\* returns "Invalid section: " followed by the section name, raises nothing,
\* does not call the service and does not use the fallback template.
C4_InvalidSectionSoftFailure ==
    (CalledGenerate /\ ~Recognized(section))
    => /\ last.result.ret = "Invalid section: " \o section
       /\ last.result.ret # generate_fallback_content(section, domain, project_title)
       /\ ~last.result.raised
       /\ last.result.svc = 0
       /\ ~last.result.warned

\* C4 witness: the call with "NotASection".
C4_Witness ==
    /\ CalledGenerate
    /\ section = "NotASection"
    /\ last.result.ret = "Invalid section: NotASection"

\* C9: generate_fallback_content returns, for each recognized section and
\* every domain and title, non-empty text holding the domain and the title
\* verbatim, and for any other section the generic placeholder naming the
\* section, the domain and the title; it makes no external call.
C9_FallbackHoldsInputs ==
    last.fn = "generate_fallback_content"
    => /\ Len(last.result.ret) > 0
       /\ Contains(last.result.ret, domain)
       /\ Contains(last.result.ret, project_title)
       /\ last.result.svc = 0
       /\ ~last.result.raised
       /\ ~Recognized(section) =>
            last.result.ret = "Content for " \o section \o " section of " \o project_title
                                \o " project in " \o domain \o " domain."

\* C9 witness: the Problem Statement template with a domain and a title.
C9_Witness ==
    /\ last.fn = "generate_fallback_content"
    /\ section = "Problem Statement"
    /\ domain = "IoT"
    /\ project_title = "Smart Parking"
    /\ Contains(last.result.ret, "Smart Parking")

-----------------------------------------------------------------------------
(* Properties of the script (Spec) *)

SectionCount == Len(valid_sections)

\* The body generate_content can hand back for a recognized section.
IsBodyOf(text, sec) ==
    \/ text = generate_fallback_content(sec, domain, project_title)
    \/ \E c \in ServiceCores : Len(c) >= MIN_CONTENT_LEN /\ text = c

HeadingCount == Cardinality({k \in 1..Len(doc) : doc[k].style # "Normal"})

\* The layout of the full document.
FullLayout ==
    /\ Len(doc) = 1 + 2 * SectionCount
    /\ doc[1] = [style |-> "Title", text |-> project_title]
    /\ \A k \in 1..SectionCount :
        /\ doc[2 * k] = [style |-> "Heading 1", text |-> valid_sections[k]]
        /\ doc[2 * k + 1].style = "Normal"
        /\ IsBodyOf(doc[2 * k + 1].text, valid_sections[k])

\* C5: a "generate all" action produces a document with exactly 7 headings,
\* the title first and then the six sections in their fixed order, each
\* followed by its body, whatever the outcome of each section's call.
C5_FullDocumentHasSevenHeadings ==
    (phase = "done" /\ generate_all)
    => /\ HeadingCount = 1 + SectionCount
       /\ FullLayout
       /\ download.data = doc

\* C5 witness: a full document in which one section fell back and the next
\* one holds the service's text.
C5_Witness ==
    /\ phase = "done"
    /\ generate_all
    /\ doc[3].text = generate_fallback_content("Introduction", domain, project_title)
    /\ doc[5].text = Rep("A", MIN_CONTENT_LEN)

\* C6: with the credential or the title missing the generate action is
\* blocked with a validation message: generate_content and the service are
\* not called, and no document or download is produced.
C6_MissingInputBlocks ==
    /\ (api_key = "" \/ project_title = "")
        => (gen_calls = 0 /\ svc_calls = 0 /\ doc = <<>> /\ download = NoDownload
            /\ phase \notin {"all", "done", "crashed"})
    /\ phase = "blocked" => (message # "" /\ (api_key = "" \/ project_title = ""))

\* C6 witness: the button was clicked with a credential and no title.
C6_Witness ==
    /\ phase = "blocked"
    /\ api_key # ""
    /\ project_title = ""
    /\ message = "Please enter the project title."

\* C7: an accepted generate action calls generate_content once per
\* requested section (six times in "generate all" mode, once otherwise),
\* one call completed before the next, and no call asks the service more
\* than once.
C7_OneCallPerSection ==
    /\ phase = "all" =>
        (gen_calls = idx - 1 /\ Len(doc) = 1 + 2 * gen_calls /\ svc_calls <= gen_calls)
    /\ phase = "done" =>
        (gen_calls = (IF generate_all THEN SectionCount ELSE 1) /\ svc_calls <= gen_calls)

\* C7 witness: a full run whose first call fell back, finished with six calls.
C7_Witness ==
    /\ phase = "done"
    /\ generate_all
    /\ gen_calls = SectionCount
    /\ doc[3].text = generate_fallback_content("Introduction", domain, project_title)

RequestedSections ==
    IF generate_all THEN {valid_sections[k] : k \in 1..SectionCount} ELSE {section}

\* C8 as stated: in both modes the document has one level-0 heading holding
\* the overall title and, per requested section, a level-1 heading naming it
\* immediately followed by one paragraph with its body.
C8_AsStated ==
    phase = "done"
    => /\ Cardinality({k \in 1..Len(doc) : doc[k].style = "Title"}) = 1
       /\ \E k \in 1..Len(doc) : doc[k] = [style |-> "Title", text |-> project_title]
       /\ \A sec \in RequestedSections :
            \E k \in 1..(Len(doc) - 1) :
                /\ doc[k] = [style |-> "Heading 1", text |-> sec]
                /\ doc[k + 1].style = "Normal"
                /\ IsBodyOf(doc[k + 1].text, sec)

\* C8 amended: in "generate all" mode the document is as stated; in
\* single-section mode it is one level-0 heading holding
\* "<title> - <section>" immediately followed by one paragraph with the
\* body, and it has no level-1 heading.
C8_LayoutPerMode ==
    /\ (phase = "done" /\ generate_all) => C8_AsStated
    /\ (phase = "done" /\ ~generate_all) =>
        /\ Len(doc) = 2
        /\ doc[1] = [style |-> "Title", text |-> project_title \o " - " \o section]
        /\ doc[2].style = "Normal"
        /\ IsBodyOf(doc[2].text, section)

\* C8 witness: a finished single-section run.
C8_Witness ==
    /\ phase = "done"
    /\ ~generate_all
    /\ section = "Objective"
    /\ doc[2].text = Rep("A", MIN_CONTENT_LEN)

\* C10: the ngrok tunnel is created at most once in the process, whatever
\* the runs and sessions, the stored handle never changes, and a run whose
\* tunnel setup failed triggers no generation.
C10_TunnelOncePerProcess ==
    /\ tunnels <= 1
    /\ \A s \in Sessions : session_state[s] \in {0, 1}
    /\ phase = "stopped" => (gen_calls = 0 /\ doc = <<>> /\ download = NoDownload)

====
